---------------------------- MODULE Spec2Model ----------------------------
(***************************************************************************)
(* The OTA update protocol of micropython-socket-ota: the device-side      *)
(* server (src/ota/__init__.py, OTAUpdater) and the desktop client         *)
(* (src/ota_client.py, OTAClient) exchanging bytes over one TCP            *)
(* connection at a time.                                                   *)
(*                                                                         *)
(* Bytes.  The server only ever sends ASCII literals, so the stream from   *)
(* server to client (s2c) is a sequence of one-character strings.  The     *)
(* stream from client to server (c2s) is a sequence of records             *)
(* [c, h, i]: a literal character, one character of a SHA-256 hex digest   *)
(* (named by the hashed input and the position), one lexeme of the JSON    *)
(* manifest, or one byte of a file (named by its file and offset).         *)
(***************************************************************************)
EXTENDS Integers, Sequences, FiniteSets, TLC

\* ----------------------------------------------------------------- bounds
\* random.getrandbits(32) is drawn from 0..MaxRand
MaxRand == 1
\* a client uploads the first 1..MaxFiles paths of PathList
MaxFiles == 2
\* every file holds 0..MaxFileSize bytes
MaxFileSize == 2
\* a recv may return fewer bytes than it could: the first 1..MaxCut of
\* them, or all but the last 1..MaxCut
MaxCut == 1
\* the faults of one boot: short reads, timeouts, an interrupted client,
\* directory and file errors
MaxFaults == 2
\* the free bytes of the device's storage at boot
FreeAtBoot == 3
\* connections made to the device between two boots
MaxSessions == 2

\* ------------------------------------------------------ program constants
max_attempts == 3
ChallengeLen == 8
DigestLen == 64
AuthResultLen == 9
SizeHeaderLen == 10
AckLen == 2
FinalLen == 14
ChunkSize == 1024

\* config["OTA_PASSWORD"] of the device, and what an operator may type
OTA_PASSWORD == "secret"
Passwords == {OTA_PASSWORD, "wrong"}
\* OTAClient.password when none was given on the command line
NoPassword == "<none>"

\* ------------------------------------------------------------ the tokens
TOK_OK == <<"O", "K">>
TOK_AUTH_FAIL == <<"A", "U", "T", "H", "_", "F", "A", "I", "L">>
TOK_FAIL == <<"F", "A", "I", "L">>
TOK_UPDATE_SUCCESS ==
    <<"U", "P", "D", "A", "T", "E", "_", "S", "U", "C", "C", "E", "S", "S">>

HexChars ==
    <<"0", "1", "2", "3", "4", "5", "6", "7", "8", "9", "a", "b", "c", "d", "e", "f">>
DigitChars == <<"0", "1", "2", "3", "4", "5", "6", "7", "8", "9">>

Min(a, b) == IF a < b THEN a ELSE b

RECURSIVE Pow(_, _)
Pow(b, e) == IF e = 0 THEN 1 ELSE b * Pow(b, e - 1)

\* ubinascii.hexlify(n.to_bytes(4, "big")).decode(): 8 hex characters
Hexlify4(n) == [i \in 1..ChallengeLen |-> HexChars[((n \div Pow(16, ChallengeLen - i)) % 16) + 1]]

\* a client-to-server byte
Lit(ch) == [c |-> ch, h |-> <<>>, i |-> 0]
LitSeq(s) == [k \in 1..Len(s) |-> Lit(s[k])]

\* hashlib.sha256(input).hexdigest(): 64 characters that name their input
\* and position, so two digests are equal exactly when their inputs are
Sha256Hex(input) == [k \in 1..DigestLen |-> [c |-> "#", h |-> input, i |-> k]]

\* (challenge + password).encode()
HashInput(challenge, password) == challenge \o <<password>>

\* .decode() of bytes received from the client, as the characters the
\* server compares: a digest or manifest byte decodes to itself
IsLit(b) == b.h = <<>> /\ b.i = 0

\* ------------------------------------------------- the 10-byte size header
RECURSIVE Digits(_)
Digits(n) ==
    IF n < 10 THEN <<DigitChars[n + 1]>>
    ELSE Digits(n \div 10) \o <<DigitChars[(n % 10) + 1]>>

\* f"{n:10d}": right-justified in 10 columns, padded with spaces
Fmt10d(n) ==
    LET d == Digits(n)
    IN  IF Len(d) >= SizeHeaderLen THEN d
        ELSE [k \in 1..(SizeHeaderLen - Len(d)) |-> " "] \o d

IsSpace(b) == IsLit(b) /\ b.c = " "
IsDigit(b) == IsLit(b) /\ b.c \in {DigitChars[k] : k \in 1..10}
DigitVal(b) == (CHOOSE k \in 1..10 : DigitChars[k] = b.c) - 1

RECURSIVE LStrip(_)
LStrip(s) == IF s # <<>> /\ IsSpace(Head(s)) THEN LStrip(Tail(s)) ELSE s
RECURSIVE RStrip(_)
RStrip(s) ==
    IF s # <<>> /\ IsSpace(s[Len(s)]) THEN RStrip(SubSeq(s, 1, Len(s) - 1)) ELSE s
Strip(s) == RStrip(LStrip(s))

RECURSIVE DigitsValue(_)
DigitsValue(s) ==
    IF s = <<>> THEN 0
    ELSE 10 * DigitsValue(SubSeq(s, 1, Len(s) - 1)) + DigitVal(s[Len(s)])

\* int(text.strip()): the value, or ParseError for ValueError
ParseError == -1
ParseInt(s) ==
    LET t == Strip(s)
    IN  IF t = <<>> \/ \E k \in 1..Len(t) : ~IsDigit(t[k]) THEN ParseError
        ELSE DigitsValue(t)

\* ------------------------------------------------------------ the manifest
\* relative POSIX paths, as their components
PathList == << <<"a.txt">>, <<"dir", "b.txt">>, <<"dir", "sub", "c.txt">> >>

\* the lexemes of the JSON document: punctuation and keys are literals,
\* a path string and a size number are one lexeme each
PathLex(p) == [c |-> "path", h |-> p, i |-> 0]
FullPathLex(p) == [c |-> "full_path", h |-> p, i |-> 0]
SizeLex(n) == [c |-> "size", h |-> <<>>, i |-> n]
IsPathLex(b) == b.c = "path" /\ b.h # <<>> /\ b.i = 0
IsSizeLex(b) == b.c = "size" /\ b.h = <<>>

\* {"path": p, "size": n, "full_path": str(file_path)}
DumpEntry(f) ==
    <<Lit("{"), Lit("k:path"), Lit(":"), PathLex(f.path), Lit(","),
      Lit("k:size"), Lit(":"), SizeLex(f.size), Lit(","),
      Lit("k:full_path"), Lit(":"), FullPathLex(f.path), Lit("}")>>
EntryLen == 13

RECURSIVE DumpEntries(_)
DumpEntries(fs) ==
    IF fs = <<>> THEN <<>>
    ELSE IF Len(fs) = 1 THEN DumpEntry(Head(fs))
    ELSE DumpEntry(Head(fs)) \o <<Lit(",")>> \o DumpEntries(Tail(fs))

\* json.dumps({"files": files_info}).encode(), one byte per JSON lexeme
JsonDumps(fs) ==
    <<Lit("{"), Lit("k:files"), Lit(":"), Lit("[")>> \o DumpEntries(fs)
        \o <<Lit("]"), Lit("}")>>

\* the file list a manifest document of this length would hold
JsonFiles(bs) ==
    [k \in 1..((Len(bs) - 5) \div (EntryLen + 1)) |->
        [path |-> bs[(EntryLen + 1) * (k - 1) + 8].h,
         size |-> bs[(EntryLen + 1) * (k - 1) + 12].i]]

\* json.loads(bytes) is a document {"files": [{path, size}, ...]}
JsonIsManifest(bs) ==
    /\ Len(bs) >= 6
    /\ \/ Len(bs) = 6
       \/ (Len(bs) - 5) % (EntryLen + 1) = 0
    /\ \A k \in 1..((Len(bs) - 5) \div (EntryLen + 1)) :
          /\ IsPathLex(bs[(EntryLen + 1) * (k - 1) + 8])
          /\ IsSizeLex(bs[(EntryLen + 1) * (k - 1) + 12])
    /\ bs = JsonDumps(JsonFiles(bs))

\* json.loads(bytes) is a bare number: valid JSON that holds no "files"
JsonIsNumber(bs) ==
    /\ Len(bs) >= 1
    /\ \A k \in 1..Len(bs) : IsDigit(bs[k])
    /\ (Len(bs) = 1 \/ bs[1] # Lit("0"))

\* json.loads(bytes) does not raise
JsonValid(bs) == JsonIsManifest(bs) \/ JsonIsNumber(bs)

\* the content of the client's file at path p, n bytes long
FileBytes(p, n) == [k \in 1..n |-> [c |-> "data", h |-> p, i |-> k]]

\* the runs of 1..MaxFiles neighbours among the paths, in rglob's order
PathChoices ==
    {ix \in UNION {[1..n -> 1..Len(PathList)] : n \in 1..MaxFiles} :
        \A j \in 1..(Len(ix) - 1) : ix[j + 1] = ix[j] + 1}

\* gather_files(): the files of a project, with their stat() sizes
Projects ==
    UNION {
        { [k \in 1..Len(ix) |-> [path |-> PathList[ix[k]], size |-> sz[k]]] :
            sz \in [1..Len(ix) -> 0..MaxFileSize] } :
        ix \in PathChoices }

RECURSIVE SumSizes(_)
SumSizes(fs) == IF fs = <<>> THEN 0 ELSE Head(fs).size + SumSizes(Tail(fs))

\* ------------------------------------------------------------------ recv
\* the byte counts a recv(n) may return when avail bytes can be read: all
\* of them, or all but the last MaxCut, or no more than the first MaxCut
RecvCounts(n, avail) ==
    LET m == Min(n, avail)
    IN  {k \in 1..m : k = m \/ k <= MaxCut \/ k >= m - MaxCut}

Take(s, k) == SubSeq(s, 1, k)
Drop(s, k) == SubSeq(s, k + 1, Len(s))

\* ------------------------------------------------------------------ state
VARIABLES
    \* the server, OTAUpdater.start_server and what it calls
    spc,            \* where the server is
    connOpen,       \* conn, the accepted socket, is open
    openConns,      \* the accepted sockets that are open
    auth_attempts,  \* _authenticate_client's counter
    challenge,      \* the challenge of the current attempt
    metadata,       \* the manifest bytes accumulated so far
    remaining,      \* manifest bytes still to read
    manifest,       \* metadata["files"]
    fidx,           \* the manifest entry being received
    received,       \* bytes of that entry received
    \* the client, OTAClient.send_update
    cpc,            \* where the client is
    sockOpen,       \* sock, the client's socket, is open
    attempt,        \* _authenticate's counter
    password,       \* self.password, or NoPassword to prompt
    project,        \* files_info
    cidx,           \* the file being sent
    outcome,        \* what send_update reported
    \* the network
    c2s,            \* bytes sent by the client, not yet read by the server
    s2c,            \* bytes sent by the server, not yet read by the client
    backlog,        \* connections made and not yet accepted
    sessions,       \* connections accepted since boot
    \* the device's storage
    fs,             \* path -> content, or NoFile
    dirs,           \* the directories that exist
    freeSpace,      \* bytes left
    faults,         \* the faults so far
    \* what happened in the current session
    slog,           \* the server's sends, and its first reads and writes
    clog            \* the client's sends

srvVars == <<spc, connOpen, openConns, auth_attempts, challenge, metadata, remaining,
             manifest, fidx, received>>
srvLocals == <<auth_attempts, challenge, metadata, remaining, manifest, fidx, received>>
cliVars == <<cpc, sockOpen, attempt, password, project, cidx, outcome, clog>>
devVars == <<fs, dirs, freeSpace>>
vars == <<srvVars, cliVars, c2s, s2c, backlog, sessions, devVars, slog, faults>>

NoFile == <<[c |-> "<nofile>", h |-> <<>>, i |-> 0]>>

Paths == {PathList[k] : k \in 1..Len(PathList)}

Ev(op, tok) == [op |-> op, tok |-> tok]
\* the log with an event added unless it is there already
Once(log, e) == IF \E k \in 1..Len(log) : log[k] = e THEN log ELSE Append(log, e)
Has(log, e) == \E k \in 1..Len(log) : log[k] = e
Count(log, e) == Cardinality({k \in 1..Len(log) : log[k] = e})

Init ==
    /\ spc = "accept"
    /\ connOpen = FALSE
    /\ openConns = 0
    /\ auth_attempts = 0
    /\ challenge = <<>>
    /\ metadata = <<>>
    /\ remaining = 0
    /\ manifest = <<>>
    /\ fidx = 0
    /\ received = 0
    /\ cpc = "idle"
    /\ sockOpen = FALSE
    /\ attempt = 0
    /\ password = NoPassword
    /\ project = <<>>
    /\ cidx = 0
    /\ outcome = "none"
    /\ c2s = <<>>
    /\ s2c = <<>>
    /\ backlog = 0
    /\ sessions = 0
    /\ fs = [p \in Paths |-> NoFile]
    /\ dirs = {}
    /\ freeSpace = FreeAtBoot
    /\ faults = 0
    /\ slog = <<>>
    /\ clog = <<>>

\* ------------------------------------------------------------ the sockets
\* conn.send(token): the token is queued for the peer, or, once the peer
\* has closed its socket, is dropped or raises OSError
ServerSendResults == IF sockOpen THEN {"sent"} ELSE {"sent", "raised"}
ServerPush(tok) == IF sockOpen THEN s2c \o tok ELSE s2c

\* conn.recv(n): n or fewer bytes; b"" once the peer has closed and all it
\* sent was read; OSError on the 10 s timeout or a reset by the peer.
\* A short read and an error with bytes at hand are faults; the timeout
\* with nothing to read, and what follows the peer's close, are not
ServerRecvCost(r, n) ==
    IF r.kind = "data" THEN (IF r.k < Min(n, Len(c2s)) THEN 1 ELSE 0)
    ELSE IF sockOpen /\ c2s # <<>> THEN 1 ELSE 0
\* recv on a socket that was given no timeout: it raises only once the peer
\* is gone
ServerRecvResults_NoTimeout(n) ==
    {r \in {[kind |-> "data", k |-> k] : k \in RecvCounts(n, Len(c2s))}
        \cup (IF c2s = <<>> /\ ~sockOpen THEN {[kind |-> "data", k |-> 0]} ELSE {})
        \cup (IF ~sockOpen THEN {[kind |-> "raised", k |-> 0]} ELSE {}) :
        faults + ServerRecvCost(r, n) <= MaxFaults}

ServerRecvResults(n) ==
    {r \in {[kind |-> "data", k |-> k] : k \in RecvCounts(n, Len(c2s))}
        \cup (IF c2s = <<>> /\ ~sockOpen THEN {[kind |-> "data", k |-> 0]} ELSE {})
        \cup {[kind |-> "raised", k |-> 0]} :
        faults + ServerRecvCost(r, n) <= MaxFaults}

\* the server's locals once _handle_client_connection is left
ResetLocals ==
    /\ auth_attempts' = 0
    /\ challenge' = <<>>
    /\ metadata' = <<>>
    /\ remaining' = 0
    /\ manifest' = <<>>
    /\ fidx' = 0
    /\ received' = 0

\* conn.send(tok) with result res: the server goes on at onSent, or at
\* onRaised when the send raised
ServerReply(tok, name, log, res, onSent, onRaised) ==
    IF res = "sent"
    THEN /\ s2c' = ServerPush(tok)
         /\ slog' = Append(log, Ev("send", name))
         /\ spc' = onSent
    ELSE /\ s2c' = s2c
         /\ slog' = Append(log, Ev("raised", name))
         /\ spc' = onRaised

\* no send: the server goes to `at`
ServerGoto(at, log) ==
    /\ spc' = at
    /\ slog' = log
    /\ s2c' = s2c

\* ------------------------------------------------------------- the server
\* start_server: sock.accept() returns the oldest pending connection, and
\* _handle_client_connection starts with auth_attempts = 0
Accept ==
    /\ spc = "accept"
    /\ backlog > 0
    /\ cpc \in {"idle", "done"}
    /\ backlog' = backlog - 1
    /\ sessions' = sessions + 1
    /\ connOpen' = TRUE
    /\ openConns' = openConns + 1
    /\ spc' = "auth_loop"
    /\ auth_attempts' = 0
    /\ slog' = <<>>
    /\ UNCHANGED <<challenge, metadata, remaining, manifest, fidx, received>>
    \* its peer: a client that has connected and waits for the challenge
    /\ cpc' = "auth_challenge"
    /\ sockOpen' = TRUE
    /\ attempt' = 0
    /\ password' \in Passwords \cup {NoPassword}
    /\ project' = <<>>
    /\ cidx' = 0
    /\ outcome' = "none"
    /\ clog' = <<>>
    /\ c2s' = <<>>
    /\ s2c' = <<>>
    /\ UNCHANGED <<devVars, faults>>

\* _generate_challenge
GenerateChallenge(r) == Hexlify4(r)

\* a verification that checks the secret and not the challenge
VerifyResponse_AnyChallenge(chal, response) ==
    /\ Len(response) = DigestLen
    /\ response = Sha256Hex(response[1].h)
    /\ response[1].h # <<>>
    /\ response[1].h[Len(response[1].h)] = OTA_PASSWORD

\* _verify_response
VerifyResponse(chal, response) ==
    response = Sha256Hex(HashInput(chal, OTA_PASSWORD))

\* a loop test that is off by one
AttemptsLeft_OffByOne(n) == n <= max_attempts

\* _authenticate_client: the loop test
AttemptsLeft(n) == n < max_attempts

\* an exhausted loop that raises instead of returning False
AuthExhausted_Raises == "fail_inner"

\* _authenticate_client after the loop: return False, so the handler returns
\* and start_server's finally runs
AuthExhausted == "finally"

\* _authenticate_client: the loop test, and the challenge of a new attempt
AuthChallenge ==
    /\ spc = "auth_loop"
    /\ IF AttemptsLeft(auth_attempts)
       THEN /\ auth_attempts' = auth_attempts + 1
            /\ \E r \in 0..MaxRand, res \in ServerSendResults :
                  /\ challenge' = GenerateChallenge(r)
                  /\ ServerReply(GenerateChallenge(r), "CHALLENGE", slog, res,
                                 "auth_recv", "finally")
       ELSE /\ ServerGoto(AuthExhausted, slog)
            /\ UNCHANGED <<auth_attempts, challenge>>
    /\ UNCHANGED <<connOpen, openConns, metadata, remaining, manifest, fidx, received>>
    /\ UNCHANGED <<cliVars, c2s, backlog, sessions, devVars, faults>>

\* _authenticate_client: the response, its verification and the reply
AuthResponse ==
    /\ spc = "auth_recv"
    /\ \E r \in ServerRecvResults(DigestLen), res \in ServerSendResults :
          /\ faults' = faults + ServerRecvCost(r, DigestLen)
          /\ \/ /\ r.kind = "raised"
                /\ res = "sent"
                /\ ServerGoto("finally", Append(slog, Ev("raised", "RESPONSE")))
                /\ c2s' = c2s
             \/ /\ r.kind = "data"
                /\ c2s' = Drop(c2s, r.k)
                /\ LET log == Append(slog, Ev("recv",
                                 IF r.k = DigestLen THEN "RESPONSE" ELSE "SHORT_RESPONSE"))
                   IN  IF VerifyResponse(challenge, Take(c2s, r.k))
                       THEN ServerReply(TOK_OK, "AUTH_OK", log, res, "recv_size", "finally")
                       ELSE ServerReply(TOK_AUTH_FAIL, "AUTH_FAIL", log, res,
                                        "auth_loop", "finally")
    \* the attempt is over, and its challenge is not used again
    /\ challenge' = <<>>
    /\ UNCHANGED <<connOpen, openConns, auth_attempts, metadata, remaining, manifest, fidx,
                   received>>
    /\ UNCHANGED <<cliVars, backlog, sessions, devVars>>

\* _handle_client_connection: the 10-byte size header and its OK
RecvSize ==
    /\ spc = "recv_size"
    /\ \E r \in ServerRecvResults(SizeHeaderLen), res \in ServerSendResults :
          /\ faults' = faults + ServerRecvCost(r, SizeHeaderLen)
          /\ \/ /\ r.kind = "raised"
                /\ res = "sent"
                /\ ServerGoto("fail_inner", Append(slog, Ev("raised", "SIZE")))
                /\ UNCHANGED <<c2s, metadata, remaining>>
             \/ /\ r.kind = "data"
                /\ ParseInt(Take(c2s, r.k)) = ParseError
                /\ res = "sent"
                /\ c2s' = Drop(c2s, r.k)
                /\ ServerGoto("fail_inner", Append(slog, Ev("recv", "BAD_SIZE")))
                /\ UNCHANGED <<metadata, remaining>>
             \/ /\ r.kind = "data"
                /\ ParseInt(Take(c2s, r.k)) # ParseError
                /\ c2s' = Drop(c2s, r.k)
                /\ LET metadata_size == ParseInt(Take(c2s, r.k))
                   IN  /\ metadata' = <<>>
                       /\ remaining' = metadata_size
                       \* with nothing to read, json.loads(b"") raises
                       /\ ServerReply(TOK_OK, "SIZE_OK", Append(slog, Ev("recv", "SIZE")), res,
                                      IF metadata_size > 0 THEN "recv_meta" ELSE "fail_inner",
                                      "fail_inner")
    /\ UNCHANGED <<connOpen, openConns, auth_attempts, challenge, manifest, fidx, received>>
    /\ UNCHANGED <<cliVars, backlog, sessions, devVars>>

\* a loop that is left after its first pass
AfterFile_First(k) == "send_success"

\* the server's position and entry once manifest entry k is complete
AfterFile(k) == IF k < Len(manifest) THEN "file_open" ELSE "send_success"
NextIndex(k) == IF k < Len(manifest) THEN k + 1 ELSE k

\* a read of a whole chunk whatever is left of the manifest
MetaWant_Chunk(rem) == ChunkSize

\* the manifest loop's read size: min(1024, remaining)
MetaWant(rem) == Min(ChunkSize, rem)

\* a manifest whose OK could not be sent, and is received all the same
MetaAckRaised_Ignored(files) == IF files = <<>> THEN "send_success" ELSE "file_open"

\* conn.send(b"OK") for the manifest raises: the inner except takes over
MetaAckRaised(files) == "fail_inner"

\* _handle_client_connection: one chunk of the manifest; with the last
\* one, json.loads, the second OK and metadata["files"]
RecvMeta ==
    /\ spc = "recv_meta"
    /\ \E r \in ServerRecvResults(MetaWant(remaining)), res \in ServerSendResults :
          /\ faults' = faults + ServerRecvCost(r, MetaWant(remaining))
          /\ \/ /\ r.kind = "raised" \/ r.k = 0
                /\ res = "sent"
                /\ ServerGoto("fail_inner",
                      Append(slog, Ev(IF r.kind = "raised" THEN "raised" ELSE "eof", "META")))
                /\ UNCHANGED <<c2s, metadata, remaining, manifest, fidx>>
             \/ /\ r.kind = "data" /\ r.k > 0
                /\ c2s' = Drop(c2s, r.k)
                /\ metadata' = metadata \o Take(c2s, r.k)
                /\ remaining' = remaining - r.k
                /\ LET data == metadata \o Take(c2s, r.k)
                   IN  \/ /\ remaining - r.k > 0
                          /\ res = "sent"
                          /\ ServerGoto("recv_meta", Once(slog, Ev("part", "META")))
                          /\ UNCHANGED <<manifest, fidx>>
                       \/ /\ remaining - r.k <= 0
                          /\ ~JsonValid(data)
                          /\ res = "sent"
                          /\ ServerGoto("fail_inner", Append(slog, Ev("recv", "BAD_META")))
                          /\ UNCHANGED <<manifest, fidx>>
                       \/ /\ remaining - r.k <= 0
                          /\ JsonValid(data)
                          /\ ~JsonIsManifest(data)
                          \* the OK is sent, then metadata["files"] raises
                          /\ ServerReply(TOK_OK, "META_OK", Append(slog, Ev("recv", "BAD_META")),
                                         res, "fail_inner", "fail_inner")
                          /\ UNCHANGED <<manifest, fidx>>
                       \/ /\ remaining - r.k <= 0
                          /\ JsonIsManifest(data)
                          /\ ServerReply(TOK_OK, "META_OK", Append(slog, Ev("recv", "META")), res,
                                         IF JsonFiles(data) = <<>> THEN "send_success"
                                         ELSE "file_open",
                                         MetaAckRaised(JsonFiles(data)))
                          /\ manifest' = JsonFiles(data)
                          /\ fidx' = IF JsonFiles(data) = <<>> THEN 0 ELSE 1
    /\ UNCHANGED <<connOpen, openConns, auth_attempts, challenge, received>>
    /\ UNCHANGED <<cliVars, backlog, sessions, devVars>>

\* the directories of a path, parents first: d1, d1/d2, ...
DirsOf(path) == [k \in 1..(Len(path) - 1) |-> SubSeq(path, 1, k)]
DirSet(path) == {SubSeq(path, 1, k) : k \in 1..(Len(path) - 1)}

\* a _makedirs that lets EEXIST through
MkdirRaises_Eexist(d) == TRUE

\* _makedirs(d) can raise: os.mkdir's EEXIST is swallowed, so only the
\* making of a directory that is not there yet can fail
MkdirRaises(d) == d \notin dirs

\* the log once the directories of a path were made, when any was missing
MkdirLog(log, made) == IF made \subseteq dirs THEN log ELSE Once(log, Ev("fs", "mkdir"))

\* _receive_file up to open(): the directories, then the truncating open;
\* a file of size 0 is complete at once and acknowledged
FileOpen ==
    /\ spc = "file_open"
    /\ LET f == manifest[fidx]
           ds == DirsOf(f.path)
       IN  \/ \* os.mkdir raises an OSError other than EEXIST at ds[j]:
              \* return False, and the handler returns
              \E j \in 1..Len(ds) :
                 /\ MkdirRaises(ds[j])
                 /\ faults < MaxFaults
                 /\ faults' = faults + 1
                 /\ dirs' = dirs \cup {ds[k] : k \in 1..(j - 1)}
                 /\ ServerGoto("finally",
                       Once(MkdirLog(slog, {ds[k] : k \in 1..(j - 1)}),
                            Ev("fs", "mkdir_failed")))
                 /\ UNCHANGED <<fs, freeSpace, fidx, received>>
           \/ \* open(file_path, "wb") raises
              /\ faults < MaxFaults
              /\ faults' = faults + 1
              /\ dirs' = dirs \cup DirSet(f.path)
              /\ ServerGoto("fail_inner",
                    Once(MkdirLog(slog, DirSet(f.path)), Ev("fs", "open_failed")))
              /\ UNCHANGED <<fs, freeSpace, fidx, received>>
           \/ \* the file is created, or truncated
              \E res \in ServerSendResults :
                 LET log == Once(MkdirLog(slog, DirSet(f.path)), Ev("fs", "open"))
                 IN  /\ faults' = faults
                     /\ dirs' = dirs \cup DirSet(f.path)
                     /\ fs' = [fs EXCEPT ![f.path] = <<>>]
                     /\ freeSpace' = freeSpace
                            + (IF fs[f.path] = NoFile THEN 0 ELSE Len(fs[f.path]))
                     /\ received' = 0
                     /\ IF f.size > 0
                        THEN /\ res = "sent"
                             /\ ServerGoto("file_recv", log)
                             /\ fidx' = fidx
                        ELSE /\ ServerReply(TOK_OK, "FILE_OK", log, res,
                                            AfterFile(fidx), "fail_inner")
                             /\ fidx' = IF res = "sent" THEN NextIndex(fidx) ELSE fidx
    /\ UNCHANGED <<connOpen, openConns, auth_attempts, challenge, metadata, remaining, manifest>>
    /\ UNCHANGED <<cliVars, c2s, backlog, sessions>>

\* a loop that is left with break when recv returns b"": the file counts
\* as received
ShortRead_Break(k) == IF k < Len(manifest) THEN "file_open" ELSE "send_success"

\* _receive_file when recv returns b"" before the file's size is reached:
\* return False, so the handler returns and start_server's finally runs
ShortRead(k) == "finally"

\* a write that starts the file anew with every chunk
WriteChunk_Overwrite(content, chunk) == chunk

\* f.write(chunk) on the file opened once per entry
WriteChunk(content, chunk) == content \o chunk

\* _receive_file: one chunk of the file, written as it arrives; with the
\* last one, the file's OK
FileRecv ==
    /\ spc = "file_recv"
    /\ LET f == manifest[fidx]
           want == Min(ChunkSize, f.size - received)
       IN  \E r \in ServerRecvResults(want), res \in ServerSendResults :
              /\ faults' = faults + ServerRecvCost(r, want)
              /\ \/ /\ r.kind = "raised"
                    /\ res = "sent"
                    /\ ServerGoto("fail_inner", Append(slog, Ev("raised", "PAYLOAD")))
                    /\ UNCHANGED <<c2s, fs, freeSpace, fidx, received>>
                 \/ \* not chunk: return False, and the handler returns
                    /\ r.kind = "data" /\ r.k = 0
                    /\ res = "sent"
                    /\ ServerGoto(ShortRead(fidx), Append(slog, Ev("eof", "PAYLOAD")))
                    /\ UNCHANGED <<c2s, fs, freeSpace, fidx, received>>
                 \/ \* f.write raises ENOSPC
                    /\ r.kind = "data" /\ r.k > 0
                    /\ r.k > freeSpace
                    /\ res = "sent"
                    /\ c2s' = Drop(c2s, r.k)
                    /\ ServerGoto("fail_inner",
                          Once(Once(slog, Ev("recv", "PAYLOAD")), Ev("fs", "write_failed")))
                    /\ UNCHANGED <<fs, freeSpace, fidx, received>>
                 \/ /\ r.kind = "data" /\ r.k > 0
                    /\ r.k <= freeSpace
                    /\ c2s' = Drop(c2s, r.k)
                    /\ fs' = [fs EXCEPT ![f.path] = WriteChunk(@, Take(c2s, r.k))]
                    /\ freeSpace' = freeSpace - r.k
                    /\ LET log == Once(Once(slog, Ev("recv", "PAYLOAD")), Ev("fs", "write"))
                       IN  IF received + r.k < f.size
                           THEN /\ res = "sent"
                                /\ received' = received + r.k
                                /\ ServerGoto("file_recv", log)
                                /\ fidx' = fidx
                           ELSE /\ received' = 0
                                /\ ServerReply(TOK_OK, "FILE_OK", log, res,
                                               AfterFile(fidx), "fail_inner")
                                /\ fidx' = IF res = "sent" THEN NextIndex(fidx) ELSE fidx
    /\ UNCHANGED <<connOpen, openConns, auth_attempts, challenge, metadata, remaining, manifest, dirs>>
    /\ UNCHANGED <<cliVars, backlog, sessions>>

\* _handle_client_connection: every entry was received; UPDATE_SUCCESS
SendSuccess ==
    /\ spc = "send_success"
    /\ \E res \in ServerSendResults :
          ServerReply(TOK_UPDATE_SUCCESS, "UPDATE_SUCCESS", slog, res,
                      "close_success", "fail_inner")
    /\ UNCHANGED <<connOpen, openConns, srvLocals>>
    /\ UNCHANGED <<cliVars, c2s, backlog, sessions, devVars, faults>>

\* a restart that leaves the socket open
CloseSuccess_Skipped ==
    /\ spc = "close_success"
    /\ ServerGoto("reset_pending", slog)
    /\ UNCHANGED <<connOpen, openConns, srvLocals, cliVars, c2s, backlog, sessions,
                   devVars, faults>>

\* conn.close() after UPDATE_SUCCESS, then sleep(0.5)
CloseSuccess ==
    /\ spc = "close_success"
    /\ connOpen' = FALSE
    /\ openConns' = openConns - 1
    /\ c2s' = <<>>
    /\ ServerGoto("reset_pending", Append(slog, Ev("close", "conn")))
    /\ UNCHANGED <<srvLocals, cliVars, backlog, sessions, devVars, faults>>

\* machine.reset(): the device restarts and the server is gone
Reset ==
    /\ spc = "reset_pending"
    /\ ServerGoto("restarting", Append(slog, Ev("reset", "machine")))
    /\ UNCHANGED <<connOpen, openConns, srvLocals, cliVars, c2s, backlog, sessions, devVars, faults>>

\* an except clause that first removes the files the session has opened
FailInner_Cleanup ==
    /\ spc = "fail_inner"
    /\ \E res \in ServerSendResults :
          ServerReply(TOK_FAIL, "FAIL", slog, res, "finally", "fail_outer")
    /\ fs' = [p \in Paths |->
                 IF \E k \in 1..fidx : manifest[k].path = p THEN NoFile ELSE fs[p]]
    /\ UNCHANGED <<connOpen, openConns, srvLocals>>
    /\ UNCHANGED <<cliVars, c2s, backlog, sessions, dirs, freeSpace, faults>>

\* the inner except: conn.send(b"FAIL"), which may itself raise
FailInner ==
    /\ spc = "fail_inner"
    /\ \E res \in ServerSendResults :
          ServerReply(TOK_FAIL, "FAIL", slog, res, "finally", "fail_outer")
    /\ UNCHANGED <<connOpen, openConns, srvLocals>>
    /\ UNCHANGED <<cliVars, c2s, backlog, sessions, devVars, faults>>

\* the outer except: conn.send(b"FAIL") once more, any error swallowed
FailOuter ==
    /\ spc = "fail_outer"
    /\ \E res \in ServerSendResults :
          ServerReply(TOK_FAIL, "FAIL", slog, res, "finally", "finally")
    /\ UNCHANGED <<connOpen, openConns, srvLocals>>
    /\ UNCHANGED <<cliVars, c2s, backlog, sessions, devVars, faults>>

\* a loop that goes back to accept without closing the connection
Finally_NoClose ==
    /\ spc = "finally"
    /\ ServerGoto("accept", slog)
    /\ ResetLocals
    /\ UNCHANGED <<connOpen, openConns, cliVars, c2s, backlog, sessions, devVars, faults>>

\* start_server's finally: conn.close(), and the loop is back at accept
Finally ==
    /\ spc = "finally"
    /\ connOpen' = FALSE
    /\ openConns' = openConns - 1
    /\ c2s' = <<>>
    /\ ServerGoto("accept", Append(slog, Ev("close", "conn")))
    /\ ResetLocals
    /\ UNCHANGED <<cliVars, backlog, sessions, devVars, faults>>

\* ------------------------------------------------------------- the client
\* sock.send(data): queued for the server, or, once the server has closed
\* the connection, dropped or ConnectionError
ClientSendResults == IF connOpen THEN {"sent"} ELSE {"sent", "raised"}
ClientPush(data) == IF connOpen THEN c2s \o data ELSE c2s

\* sock.recv(n): n or fewer bytes; b"" once the server has closed and all
\* it sent was read; socket.timeout; ConnectionResetError after a close
ClientRecvCost(r, n) ==
    IF r.kind = "data" THEN (IF r.k < Min(n, Len(s2c)) THEN 1 ELSE 0)
    ELSE IF r.kind = "timeout" THEN 1 ELSE 0
ClientRecvResults(n) ==
    {r \in {[kind |-> "data", k |-> k] : k \in RecvCounts(n, Len(s2c))}
        \cup (IF s2c = <<>> /\ ~connOpen THEN {[kind |-> "data", k |-> 0]} ELSE {})
        \cup {[kind |-> "timeout", k |-> 0]}
        \cup (IF ~connOpen THEN {[kind |-> "reset", k |-> 0]} ELSE {}) :
        faults + ClientRecvCost(r, n) <= MaxFaults}

\* send_update is left with this report; its finally closes the socket,
\* and what was not read is gone
ClientDone(report) ==
    /\ outcome' = report
    /\ cpc' = "done"
    /\ sockOpen' = FALSE
    /\ s2c' = <<>>

\* the client goes on at `at`, having read k bytes
ClientGoto(at, k) ==
    /\ cpc' = at
    /\ s2c' = Drop(s2c, k)
    /\ UNCHANGED <<outcome, sockOpen>>

\* the reports of send_update's except clauses for a failed recv or send:
\* socket.timeout, or a ConnectionError whose text holds "forcibly closed"
\* or not
ErrorReports(kind) ==
    IF kind = "timeout" THEN {"timed_out"}
    ELSE {"rebooting_after_success", "connection_error"}

\* a new run of the client: socket.connect() succeeds once the device's
\* listening socket has queued the connection
Connect ==
    /\ spc # "restarting"
    /\ sessions + backlog < MaxSessions
    /\ backlog' = backlog + 1
    /\ UNCHANGED <<srvVars, cliVars, c2s, s2c, sessions, devVars, slog, faults>>

\* the password of an attempt: self.password, or what the operator types
AttemptPasswords == IF password = NoPassword THEN Passwords ELSE {password}

\* _authenticate: the next attempt: the challenge is read and answered
ClientChallenge ==
    /\ cpc = "auth_challenge"
    /\ attempt' = attempt + 1
    /\ \E r \in ClientRecvResults(ChallengeLen), res \in ClientSendResults :
          /\ faults' = faults + ClientRecvCost(r, ChallengeLen)
          /\ \/ /\ r.kind # "data"
                /\ res = "sent"
                /\ ClientDone("authentication_failed")
                /\ UNCHANGED <<c2s, clog>>
             \/ /\ r.kind = "data"
                /\ clog' = Append(clog, "RESPONSE")
                /\ \E pw \in AttemptPasswords :
                      IF res = "sent"
                      THEN /\ c2s' = ClientPush(Sha256Hex(HashInput(Take(s2c, r.k), pw)))
                           /\ ClientGoto("auth_result", r.k)
                      ELSE /\ c2s' = c2s
                           /\ ClientDone("authentication_failed")
    /\ UNCHANGED <<password, project, cidx>>
    /\ UNCHANGED <<srvVars, backlog, sessions, devVars, slog>>

\* the bytes of metadata_bytes, and of the file at index k
MetadataBytes(files) == JsonDumps(files)
ContentOf(files, k) == FileBytes(files[k].path, files[k].size)

\* sock.getpeername() does not raise: always while the server's end is open
PeerNameResults == IF connOpen THEN {TRUE} ELSE {TRUE, FALSE}

\* _authenticate: the server's verdict; on OK send_update goes on to send
\* the 10-byte length of the manifest of its files
ClientAuthResult ==
    /\ cpc = "auth_result"
    /\ \E r \in ClientRecvResults(AuthResultLen), res \in ClientSendResults :
          /\ faults' = faults + ClientRecvCost(r, AuthResultLen)
          /\ \/ /\ r.kind # "data"
                /\ res = "sent"
                /\ ClientDone("authentication_failed")
                /\ UNCHANGED <<c2s, clog, project>>
             \/ /\ r.kind = "data"
                /\ Take(s2c, r.k) = TOK_OK
                /\ clog' = Append(clog, "SIZE")
                /\ \E files \in Projects :
                      /\ project' = files
                      /\ IF res = "sent"
                         THEN /\ c2s' = ClientPush(LitSeq(Fmt10d(Len(MetadataBytes(files)))))
                              /\ ClientGoto("wait_size_ok", r.k)
                         ELSE /\ c2s' = c2s
                              /\ \E rep \in ErrorReports("reset") : ClientDone(rep)
             \/ /\ r.kind = "data"
                /\ Take(s2c, r.k) = TOK_AUTH_FAIL
                /\ res = "sent"
                /\ \E alive \in PeerNameResults :
                      IF alive /\ attempt < max_attempts
                      THEN ClientGoto("auth_challenge", r.k)
                      ELSE ClientDone("authentication_failed")
                /\ UNCHANGED <<c2s, clog, project>>
             \/ /\ r.kind = "data"
                /\ Take(s2c, r.k) \notin {TOK_OK, TOK_AUTH_FAIL}
                /\ res = "sent"
                /\ ClientDone("authentication_failed")
                /\ UNCHANGED <<c2s, clog, project>>
    /\ UNCHANGED <<attempt, password, cidx>>
    /\ UNCHANGED <<srvVars, backlog, sessions, devVars, slog>>

\* the prefixes of `data` that are on the wire when the operator interrupts
\* the client in the middle of sending it
SendCuts(data) == {Take(data, k) : k \in 1..Min(MaxCut, Len(data) - 1)}

\* send_update awaits an OK with recv(2) and on OK sends `data` and goes on
\* at `at` with file index idx; `what` names what is sent, `refused` is the
\* report when the reply is not OK. An interrupt while `data` is sent leaves
\* a prefix of it on the wire, and is a fault
ClientAwaitOk(at, data, what, refused, idx) ==
    /\ \E r \in ClientRecvResults(AckLen), res \in ClientSendResults :
          \/ /\ r.kind # "data"
             /\ res = "sent"
             /\ faults' = faults + ClientRecvCost(r, AckLen)
             /\ \E rep \in ErrorReports(r.kind) : ClientDone(rep)
             /\ UNCHANGED <<c2s, clog, cidx>>
          \/ /\ r.kind = "data"
             /\ Take(s2c, r.k) = TOK_OK
             /\ clog' = IF what = "" THEN clog ELSE Append(clog, what)
             /\ cidx' = idx
             /\ \/ /\ res = "sent"
                   /\ faults' = faults + ClientRecvCost(r, AckLen)
                   /\ c2s' = ClientPush(data)
                   /\ ClientGoto(at, r.k)
                \/ /\ res = "sent"
                   /\ faults + ClientRecvCost(r, AckLen) < MaxFaults
                   /\ faults' = faults + ClientRecvCost(r, AckLen) + 1
                   /\ \E part \in SendCuts(data) : c2s' = ClientPush(part)
                   /\ ClientDone("interrupted")
                \/ /\ res = "raised"
                   /\ data # <<>>
                   /\ faults' = faults + ClientRecvCost(r, AckLen)
                   /\ c2s' = c2s
                   /\ \E rep \in ErrorReports("reset") : ClientDone(rep)
          \/ /\ r.kind = "data"
             /\ Take(s2c, r.k) # TOK_OK
             /\ res = "sent"
             /\ faults' = faults + ClientRecvCost(r, AckLen)
             /\ ClientDone(refused)
             /\ UNCHANGED <<c2s, clog, cidx>>
    /\ UNCHANGED <<attempt, password, project>>
    /\ UNCHANGED <<srvVars, backlog, sessions, devVars, slog>>

\* send_update: the OK for the length, then the manifest body
ClientSizeOk ==
    /\ cpc = "wait_size_ok"
    /\ ClientAwaitOk("wait_meta_ok", MetadataBytes(project), "META", "size_refused", 0)

\* send_update: the OK for the manifest, then the first file's content
ClientMetaOk ==
    /\ cpc = "wait_meta_ok"
    /\ ClientAwaitOk("wait_file_ok", ContentOf(project, 1), "FILE", "metadata_refused", 1)

\* send_update: the OK for a file, then the next file's content, or the
\* wait for the final confirmation
ClientFileOk ==
    /\ cpc = "wait_file_ok"
    /\ IF cidx < Len(project)
       THEN ClientAwaitOk("wait_file_ok", ContentOf(project, cidx + 1), "FILE",
                          "file_refused", cidx + 1)
       ELSE ClientAwaitOk("wait_final", <<>>, "", "file_refused", cidx)

\* send_update: the final confirmation, recv(14)
ClientFinal ==
    /\ cpc = "wait_final"
    /\ \E r \in ClientRecvResults(FinalLen) :
          /\ faults' = faults + ClientRecvCost(r, FinalLen)
          /\ IF r.kind # "data"
             THEN \E rep \in ErrorReports(r.kind) : ClientDone(rep)
             ELSE ClientDone(IF Take(s2c, r.k) = TOK_UPDATE_SUCCESS
                             THEN "success" ELSE "unexpected_final")
    /\ UNCHANGED <<attempt, password, project, cidx, clog, c2s>>
    /\ UNCHANGED <<srvVars, backlog, sessions, devVars, slog>>

\* the operator interrupts the client: send_update's finally closes the socket
ClientInterrupt ==
    /\ cpc \notin {"idle", "done"}
    /\ faults < MaxFaults
    /\ faults' = faults + 1
    /\ ClientDone("interrupted")
    /\ UNCHANGED <<attempt, password, project, cidx, clog, c2s>>
    /\ UNCHANGED <<srvVars, backlog, sessions, devVars, slog>>

\* ------------------------------------------------------ the specification
Next ==
    \/ Accept
    \/ AuthChallenge
    \/ AuthResponse
    \/ RecvSize
    \/ RecvMeta
    \/ FileOpen
    \/ FileRecv
    \/ SendSuccess
    \/ CloseSuccess
    \/ Reset
    \/ FailInner
    \/ FailOuter
    \/ Finally
    \/ Connect
    \/ ClientChallenge
    \/ ClientAuthResult
    \/ ClientSizeOk
    \/ ClientMetaOk
    \/ ClientFileOk
    \/ ClientFinal
    \/ ClientInterrupt

Spec == Init /\ [][Next]_vars

\* the steps of the server while it handles a connection
ServerStep ==
    \/ AuthChallenge
    \/ AuthResponse
    \/ RecvSize
    \/ RecvMeta
    \/ FileOpen
    \/ FileRecv
    \/ SendSuccess
    \/ CloseSuccess
    \/ Reset
    \/ FailInner
    \/ FailOuter
    \/ Finally

\* the device back at accept after a first connection that its operator
\* interrupted during the handshake: one connection and one fault are left
LiveInit ==
    /\ spc = "accept"
    /\ connOpen = FALSE
    /\ openConns = 0
    /\ auth_attempts = 0
    /\ challenge = <<>>
    /\ metadata = <<>>
    /\ remaining = 0
    /\ manifest = <<>>
    /\ fidx = 0
    /\ received = 0
    /\ cpc = "idle"
    /\ sockOpen = FALSE
    /\ attempt = 0
    /\ password = NoPassword
    /\ project = <<>>
    /\ cidx = 0
    /\ outcome = "none"
    /\ c2s = <<>>
    /\ s2c = <<>>
    /\ backlog = 0
    /\ sessions = MaxSessions - 1
    /\ fs = [p \in Paths |-> NoFile]
    /\ dirs = {}
    /\ freeSpace = FreeAtBoot
    /\ faults = MaxFaults - 1
    /\ slog = <<>>
    /\ clog = <<>>

\* the server is one thread that runs whenever it can: a send returns, a
\* recv returns bytes or raises after its timeout, and so on to the close;
\* nothing is assumed of the client
LiveSpec == LiveInit /\ [][Next]_vars /\ WF_vars(ServerStep)

\* ------------------------------------------------------------------------
\* What the server did in the current session, read off its log
Sent(tok) == Has(slog, Ev("send", tok))
Tried(tok) == {k \in 1..Len(slog) : slog[k].tok = tok /\ slog[k].op \in {"send", "raised"}}
LastEvent == slog[Len(slog)]
\* the stream s begins with the whole token
Starts(s, tok) == Len(s) >= Len(tok) /\ SubSeq(s, 1, Len(tok)) = tok
SessionClosed == spc = "accept" /\ ~connOpen /\ slog # <<>> /\ LastEvent = Ev("close", "conn")

\* ---------------------------------------------------------------------- C1
\* C1: a session issues at most 3 challenges, its attempt counter starts at
\* 0, and after 3 mismatched responses the session can only end closed:
\* no auth OK, no manifest read, no file written, no UPDATE_SUCCESS and no
\* restart.
C1_AfterAuthEvents ==
    {k \in 1..Len(slog) :
        \/ slog[k].op \in {"fs", "reset"}
        \/ slog[k].tok \in {"AUTH_OK", "SIZE", "BAD_SIZE", "SIZE_OK", "META", "BAD_META",
                            "META_OK", "PAYLOAD", "FILE_OK", "UPDATE_SUCCESS"}}

C1_AtMostThreeAttempts ==
    /\ Cardinality(Tried("CHALLENGE")) <= 3
    /\ auth_attempts \in 0..3
    /\ (connOpen /\ slog = <<>>) => auth_attempts = 0
    /\ Cardinality(Tried("AUTH_FAIL")) = 3 =>
          /\ C1_AfterAuthEvents = {}
          /\ spc \in {"auth_loop", "finally", "accept"}
          /\ spc = "accept" => SessionClosed

C1_Witness ==
    /\ SessionClosed
    /\ Cardinality(Tried("AUTH_FAIL")) = 3
    /\ Cardinality(Tried("CHALLENGE")) = 3

\* ---------------------------------------------------------------------- C2
\* C2: each attempt sends the challenge it then verifies against; a response
\* equal to the hex SHA-256 of (challenge ++ secret) is answered OK and the
\* session goes on to the manifest, any other response is answered
\* AUTH_FAIL and, with attempts left, a new challenge; so the auth OK always
\* follows a full response to the challenge sent just before it.
C2_Expected == Sha256Hex(HashInput(challenge, OTA_PASSWORD))

C2_Verified(reply, tok, at) ==
    /\ reply.tok = tok
    /\ reply.op = "send" =>
          /\ spc' = at
          /\ s2c' = IF sockOpen THEN s2c \o (IF tok = "AUTH_OK" THEN TOK_OK ELSE TOK_AUTH_FAIL)
                    ELSE s2c

C2_VerifyStep ==
    (spc = "auth_recv" /\ Len(slog') = Len(slog) + 2) =>
        LET response == SubSeq(c2s, 1, Len(c2s) - Len(c2s'))
            reply == slog'[Len(slog')]
        IN  IF response = C2_Expected
            THEN C2_Verified(reply, "AUTH_OK", "recv_size")
            ELSE C2_Verified(reply, "AUTH_FAIL", "auth_loop")

C2_ChallengeStep ==
    (spc = "auth_loop" /\ spc' # "auth_loop" /\ auth_attempts < 3) =>
        /\ auth_attempts' = auth_attempts + 1
        /\ slog'[Len(slog')].tok = "CHALLENGE"
        /\ \E r \in 0..MaxRand : challenge' = Hexlify4(r)
        /\ slog'[Len(slog')].op = "send" =>
              /\ spc' = "auth_recv"
              /\ s2c' = IF sockOpen THEN s2c \o challenge' ELSE s2c

C2_OkFollowsResponse ==
    \A k \in 1..Len(slog) :
        slog[k] = Ev("send", "AUTH_OK") =>
            /\ k >= 3
            /\ slog[k - 1] = Ev("recv", "RESPONSE")
            /\ slog[k - 2] = Ev("send", "CHALLENGE")
            /\ \A j \in 1..(k - 1) : slog[j].tok # "AUTH_OK"

C2_ChallengeResponse ==
    /\ [][/\ C2_VerifyStep
          /\ C2_ChallengeStep
          /\ (spc = "auth_recv" /\ spc' = "auth_recv") => challenge' = challenge]_vars
    /\ [](C2_OkFollowsResponse)

C2_Witness ==
    /\ spc = "recv_size"
    /\ auth_attempts = 3
    /\ Cardinality(Tried("AUTH_FAIL")) = 2
    /\ LastEvent = Ev("send", "AUTH_OK")
    /\ cpc = "wait_size_ok"

\* ---------------------------------------------------------------------- C3
\* C3: after the third AUTH_FAIL of a session the server sends nothing more
\* and only closes the socket; the client's _authenticate returns False and
\* send_update never sends the manifest length or anything after it.
C3_ThirdFail ==
    CHOOSE k \in Tried("AUTH_FAIL") :
        Cardinality({j \in Tried("AUTH_FAIL") : j <= k}) = 3

C3_ThreeFailuresClose ==
    Cardinality(Tried("AUTH_FAIL")) >= 3 =>
        /\ \A j \in (C3_ThirdFail + 1)..Len(slog) : slog[j] = Ev("close", "conn")
        /\ \A j \in 1..Len(clog) : clog[j] = "RESPONSE"
        /\ cpc \in {"auth_challenge", "auth_result", "done"}
        /\ cpc = "done" => outcome \in {"authentication_failed", "interrupted"}

C3_Witness ==
    /\ SessionClosed
    /\ Cardinality(Tried("AUTH_FAIL")) = 3
    /\ LastEvent = Ev("close", "conn")
    /\ slog[Len(slog) - 1] = Ev("send", "AUTH_FAIL")
    /\ cpc = "done"
    /\ attempt = 3
    /\ outcome = "authentication_failed"

\* ---------------------------------------------------------------------- C4
\* C4: a transport error in the handshake (a send or recv that raises, or a
\* response of fewer than 64 bytes, zero included) ends the handshake: no
\* AUTH_FAIL answers it and no further challenge follows it.
C4_IsTransportError(e) ==
    \/ e = Ev("recv", "SHORT_RESPONSE")
    \/ e.op = "raised" /\ e.tok \in {"CHALLENGE", "RESPONSE", "AUTH_OK", "AUTH_FAIL"}

C4_TransportErrorAborts ==
    \A k \in 1..Len(slog) :
        C4_IsTransportError(slog[k]) =>
            \A j \in (k + 1)..Len(slog) : slog[j].tok \notin {"AUTH_FAIL", "CHALLENGE"}

\* ---------------------------------------------------------------------- C5
\* C5: when the manifest asks for more space than the storage has free, the
\* server answers the acknowledged manifest with FAIL: it reads no payload
\* byte, creates and writes no file, and neither confirms nor restarts.
\* (In the first session of a boot nothing was written before the manifest,
\* so the free space then is FreeAtBoot; the sizes of the files alone are
\* the least the manifest can require.)
C5_AdmissionControl ==
    (sessions = 1 /\ Sent("META_OK") /\ manifest # <<>> /\ SumSizes(manifest) > FreeAtBoot) =>
        /\ spc \in {"fail_inner", "fail_outer", "finally"}
        /\ \A k \in 1..Len(slog) :
              /\ slog[k].op \notin {"fs", "reset"}
              /\ slog[k].tok \notin {"PAYLOAD", "FILE_OK", "UPDATE_SUCCESS"}

\* ---------------------------------------------------------------------- C6
\* C6: when UPDATE_SUCCESS is sent, every file of the manifest holds on the
\* device exactly its own bytes: the size_i bytes of the client's stream
\* that start after the bytes of the files before it, however the payload
\* was cut into reads.
RECURSIVE ClientStream(_)
ClientStream(files) ==
    IF files = <<>> THEN <<>>
    ELSE FileBytes(Head(files).path, Head(files).size) \o ClientStream(Tail(files))

C6_Offset(files, k) == SumSizes(SubSeq(files, 1, k - 1))

C6_RoundTrip ==
    Sent("UPDATE_SUCCESS") =>
        /\ manifest = project
        /\ \A k \in 1..Len(manifest) :
              fs[manifest[k].path] =
                  SubSeq(ClientStream(project), C6_Offset(project, k) + 1,
                         C6_Offset(project, k) + project[k].size)

C6_Witness ==
    /\ spc = "restarting"
    /\ Len(manifest) = 2
    /\ manifest[1].size = 2
    /\ manifest[2].size = 1
    /\ fs[PathList[1]] = FileBytes(PathList[1], 2)
    /\ fs[PathList[2]] = FileBytes(PathList[2], 1)
    /\ faults > 0
    /\ outcome = "success"

\* ---------------------------------------------------------------------- C7
\* C7: the device restarts only as the step after closing the socket, which
\* is the step after a sent UPDATE_SUCCESS; once UPDATE_SUCCESS is sent
\* nothing else is sent or tested, and the close and the restart can always
\* be taken.
C7_AfterSuccess(k) ==
    /\ Len(slog) <= k + 2
    /\ Len(slog) = k => spc = "close_success" /\ connOpen
    /\ Len(slog) >= k + 1 => slog[k + 1] = Ev("close", "conn") /\ ~connOpen
    /\ Len(slog) = k + 1 => spc = "reset_pending"
    /\ Len(slog) = k + 2 => slog[k + 2] = Ev("reset", "machine") /\ spc = "restarting"

C7_CommitOrder ==
    /\ \A k \in 1..Len(slog) : slog[k] = Ev("send", "UPDATE_SUCCESS") => C7_AfterSuccess(k)
    /\ \A k \in 1..Len(slog) :
          slog[k].op = "reset" => k >= 3 /\ slog[k - 2] = Ev("send", "UPDATE_SUCCESS")
    /\ spc \in {"close_success", "reset_pending", "restarting"} => Sent("UPDATE_SUCCESS")
    /\ spc = "close_success" => ENABLED CloseSuccess
    /\ spc = "reset_pending" => ENABLED Reset

C7_Witness ==
    /\ spc = "restarting"
    /\ Len(slog) >= 3
    /\ LastEvent = Ev("reset", "machine")
    /\ slog[Len(slog) - 1] = Ev("close", "conn")
    /\ slog[Len(slog) - 2] = Ev("send", "UPDATE_SUCCESS")

\* ---------------------------------------------------------------------- C8
\* C8: a session that was authenticated and ended without UPDATE_SUCCESS
\* met a fatal condition, and the server tried to send FAIL exactly once
\* before the connection was closed.
C8_OneFailPerFatal ==
    (SessionClosed /\ Sent("AUTH_OK") /\ ~Sent("UPDATE_SUCCESS")) =>
        Cardinality(Tried("FAIL")) = 1

\* ---------------------------------------------------------------------- C9
\* C9: whatever raises while a connection is handled, the sending of FAIL
\* included, the server stays in its loop: it is on the way to the finally,
\* which closes the connection, and then back at accept with the connection
\* closed, where a pending connection can be accepted.
ServerPlaces ==
    {"accept", "auth_loop", "auth_recv", "recv_size", "recv_meta", "file_open", "file_recv",
     "send_success", "close_success", "reset_pending", "restarting", "fail_inner",
     "fail_outer", "finally"}

C9_IsError(e) ==
    \/ e.op \in {"raised", "eof"}
    \/ e.tok \in {"BAD_SIZE", "BAD_META", "mkdir_failed", "open_failed", "write_failed"}

C9_ErrorsContained ==
    /\ spc \in ServerPlaces
    /\ (\E k \in 1..Len(slog) : C9_IsError(slog[k])) =>
          spc \in {"fail_inner", "fail_outer", "finally", "accept"}
    /\ spc = "fail_inner" => ENABLED FailInner
    /\ spc = "fail_outer" => ENABLED FailOuter
    /\ spc = "finally" => ENABLED Finally
    /\ spc = "accept" => ~connOpen /\ openConns = 0
    /\ (spc = "accept" /\ slog # <<>>) => LastEvent = Ev("close", "conn")
    /\ (spc = "accept" /\ backlog > 0 /\ cpc \in {"idle", "done"}) => ENABLED Accept

C9_Witness ==
    /\ SessionClosed
    /\ Cardinality(Tried("FAIL")) = 2
    /\ ~Sent("FAIL")
    /\ backlog > 0
    /\ ENABLED Accept

\* --------------------------------------------------------------------- C10
\* C10: at most one accepted connection is open at any time, and a pending
\* connection is accepted only by the loop at accept, after the socket of
\* the connection before it was closed.
C10_OneAtATime ==
    /\ openConns <= 1
    /\ connOpen <=> openConns = 1
    /\ connOpen => spc \notin {"accept", "reset_pending", "restarting"}

C10_AcceptStep ==
    (sessions' # sessions \/ backlog' < backlog) =>
        /\ spc = "accept"
        /\ openConns = 0
        /\ ~connOpen
        /\ sessions' = sessions + 1
        /\ backlog' = backlog - 1
        /\ openConns' = 1

C10_Serial == [](C10_OneAtATime) /\ [][C10_AcceptStep]_vars

C10_Witness ==
    /\ sessions = 1
    /\ backlog = 1
    /\ connOpen
    /\ spc = "file_recv"
    /\ received > 0

\* --------------------------------------------------------------------- C11
\* C11: when recv returns no bytes before a file's declared size has been
\* received, the session is over: the only thing the server does after it
\* is close the connection, so it takes no further manifest entry, does not
\* acknowledge that file, does not send UPDATE_SUCCESS and does not restart.
C11_ShortReadAt(k) == slog[k] = Ev("eof", "PAYLOAD")

C11_ShortReadFatal ==
    \A k \in 1..Len(slog) :
        C11_ShortReadAt(k) =>
            /\ Len(slog) <= k + 1
            /\ Len(slog) = k + 1 => slog[k + 1] = Ev("close", "conn")
            /\ spc \in {"finally", "accept"}
            /\ ~Sent("UPDATE_SUCCESS")
            /\ spc = "finally" =>
                  /\ fidx \in 1..Len(manifest)
                  /\ Cardinality(Tried("FILE_OK")) = fidx - 1
                  /\ Len(fs[manifest[fidx].path]) < manifest[fidx].size

C11_Witness ==
    /\ spc = "finally"
    /\ LastEvent = Ev("eof", "PAYLOAD")
    /\ Len(manifest) = 2
    /\ fidx = 1
    /\ received > 0

\* --------------------------------------------------------------------- C12
\* C12: the client reports success only when it has read UPDATE_SUCCESS;
\* while it waits for the final confirmation, a socket closed by the peer
\* with nothing more to read is reported as "rebooting after success", and
\* any other content or a timeout as a failure; and it reports neither
\* success nor "rebooting after success" in a run in which the server did
\* not send UPDATE_SUCCESS.
C12_Failures == {"unexpected_final", "timed_out", "connection_error"}

C12_SuccessWasSent ==
    outcome \in {"success", "rebooting_after_success"} => Sent("UPDATE_SUCCESS")

C12_FinalStep ==
    (cpc = "wait_final" /\ cpc' = "done" /\ outcome' # "interrupted") =>
        /\ outcome' = "success" => Starts(s2c, TOK_UPDATE_SUCCESS)
        /\ (s2c = <<>> /\ ~connOpen /\ outcome' # "timed_out") =>
              outcome' = "rebooting_after_success"
        /\ (s2c # <<>> /\ ~Starts(s2c, TOK_UPDATE_SUCCESS)) =>
              outcome' \in C12_Failures

C12_ClientOutcome == [](C12_SuccessWasSent) /\ [][C12_FinalStep]_vars

\* --------------------------------------------------------------------- C13
\* C13: every accepted connection ends, whatever the peer does or fails to
\* do: from any state with the connection open, the server comes to accept
\* with the connection closed, or to the restart.
C13_Ended == ~connOpen /\ spc \in {"accept", "restarting"}

C13_SessionsEnd == connOpen ~> C13_Ended

\* the server gave up on a peer that is connected and sends no payload
C13_Witness ==
    /\ SessionClosed
    /\ sockOpen
    /\ cpc \notin {"idle", "done"}
    /\ Has(slog, Ev("raised", "PAYLOAD"))

\* --------------------------------------------------------------------- C14
\* C14: after the first OK the server appends what it reads to the manifest
\* until the declared count is reached, never reading past it; only then
\* does it parse the bytes and send the second OK; if the connection closes
\* before the count is reached, or the bytes are no JSON document, the next
\* thing it does is try to send FAIL, and it touches no file in that session.
C14_MetaStep ==
    (spc = "recv_meta" /\ metadata' # metadata) =>
        LET n == Len(metadata') - Len(metadata)
        IN  /\ n \in 1..remaining
            /\ metadata' = metadata \o Take(c2s, n)
            /\ c2s' = Drop(c2s, n)
            /\ remaining' = remaining - n
            /\ Sent("META_OK")' => remaining' = 0
            /\ remaining' > 0 => spc' = "recv_meta" /\ s2c' = s2c

C14_FailsNext(k) ==
    /\ Len(slog) = k => spc = "fail_inner"
    /\ Len(slog) > k => slog[k + 1].tok = "FAIL"

C14_Counted ==
    /\ spc = "recv_meta" => remaining > 0 /\ Sent("SIZE_OK") /\ ~Sent("META_OK")
    /\ \A k \in 1..Len(slog) :
          /\ slog[k].tok = "META_OK" =>
                k > 1 /\ slog[k - 1] \in {Ev("recv", "META"), Ev("recv", "BAD_META")}
          /\ (slog[k] = Ev("recv", "META") /\ connOpen) =>
                /\ remaining = 0
                /\ metadata = MetadataBytes(manifest)
          /\ slog[k] \in {Ev("eof", "META"), Ev("raised", "META")} => C14_FailsNext(k)
          /\ slog[k] = Ev("recv", "BAD_META") =>
                \/ C14_FailsNext(k)
                \/ Len(slog) > k /\ slog[k + 1].tok = "META_OK" /\ C14_FailsNext(k + 1)
    /\ (\E k \in 1..Len(slog) :
           slog[k].tok = "BAD_META" \/ slog[k] \in {Ev("eof", "META"), Ev("raised", "META")}) =>
          /\ \A j \in 1..Len(slog) : slog[j].op # "fs"
          /\ spc \in {"fail_inner", "fail_outer", "finally", "accept"}

C14_ExactCount == [](C14_Counted) /\ [][C14_MetaStep]_vars

C14_Witness ==
    /\ spc = "file_open"
    /\ Has(slog, Ev("part", "META"))
    /\ LastEvent = Ev("send", "META_OK")
    /\ manifest = project
    /\ Len(manifest) = 2
    /\ c2s = <<>>

\* --------------------------------------------------------------------- C15
\* C15: a receiver that acts on a fixed-length control message acts on all
\* of it: with the whole message in the stream, the server takes all 64
\* characters of the response and all 10 bytes of the length header, the
\* client takes all 8 characters of the challenge, and the client does not
\* treat a cut OK as a refusal or a cut UPDATE_SUCCESS as an unexpected
\* final response.
C15_ServerTakes(at, n) ==
    (spc = at /\ spc' # at /\ Len(c2s) >= n /\ c2s' # c2s) => c2s' = Drop(c2s, n)

C15_ClientTakesChallenge ==
    (cpc = "auth_challenge" /\ cpc' = "auth_result" /\ Len(s2c) >= ChallengeLen) =>
        s2c' = Drop(s2c, ChallengeLen)

C15_ClientReadsOk ==
    (cpc \in {"wait_size_ok", "wait_meta_ok", "wait_file_ok"} /\ cpc' = "done"
        /\ Starts(s2c, TOK_OK)) =>
        outcome' \notin {"size_refused", "metadata_refused", "file_refused"}

C15_ClientReadsFinal ==
    (cpc = "wait_final" /\ cpc' = "done" /\ Starts(s2c, TOK_UPDATE_SUCCESS)) =>
        outcome' # "unexpected_final"

C15_Step ==
    /\ C15_ServerTakes("auth_recv", DigestLen)
    /\ C15_ServerTakes("recv_size", SizeHeaderLen)
    /\ C15_ClientTakesChallenge
    /\ C15_ClientReadsOk
    /\ C15_ClientReadsFinal

C15_ExactReads == [][C15_Step]_vars

\* --------------------------------------------------------------------- C16
\* C16: after the OK for the manifest the server sends nothing but the
\* final token, UPDATE_SUCCESS or FAIL: no acknowledgment of a chunk or of a
\* file; and the client, with files still to send, does not wait for the
\* server.
C16_ServerSilent ==
    \A k \in 1..Len(slog) :
        slog[k] = Ev("send", "META_OK") =>
            \A j \in (k + 1)..Len(slog) :
                slog[j].op \in {"send", "raised"} => slog[j].tok \in {"UPDATE_SUCCESS", "FAIL"}

C16_ClientStreams == ~(cpc = "wait_file_ok" /\ cidx < Len(project))

C16_Unidirectional == C16_ServerSilent /\ C16_ClientStreams

\* --------------------------------------------------------------------- C17
\* C17: the directories of a file's path are made parents first and before
\* the file is opened; one that exists already is no error, so directory
\* creation fails only at a directory that was missing, with its parents
\* made; and such a failure ends the file and the session: the file is not
\* opened and the server goes to the close.
C17_ParentsFirst ==
    /\ \A d \in dirs : \A k \in 1..(Len(d) - 1) : SubSeq(d, 1, k) \in dirs
    /\ \A p \in Paths : fs[p] # NoFile => DirSet(p) \subseteq dirs

C17_MkdirStep ==
    (spc = "file_open" /\ <<spc, fidx, dirs, fs, slog>>' # <<spc, fidx, dirs, fs, slog>>) =>
        LET ds == DirsOf(manifest[fidx].path)
        IN  \/ /\ dirs' = dirs \cup DirSet(manifest[fidx].path)
               /\ spc' # "finally"
            \/ /\ spc' = "finally"
               /\ fs' = fs
               /\ Has(slog', Ev("fs", "mkdir_failed"))
               /\ \E j \in 1..Len(ds) :
                     /\ ds[j] \notin dirs
                     /\ dirs' = dirs \cup {ds[k] : k \in 1..(j - 1)}

C17_Makedirs == [](C17_ParentsFirst) /\ [][C17_MkdirStep]_vars

\* the same nested path in a second session: its directories are all there
C17_Witness ==
    /\ sessions = 2
    /\ spc = "file_recv"
    /\ manifest[fidx].path = PathList[3]
    /\ fs[PathList[3]] = <<>>
    /\ Has(slog, Ev("fs", "open"))
    /\ ~Has(slog, Ev("fs", "mkdir"))

\* --------------------------------------------------------------------- C18
\* C18: nothing is rolled back. While entry k of the manifest is received,
\* and on the failure path that follows, the files of entries 1..k-1 hold
\* the bytes the client sent for them; and the steps of the failure path
\* (the FAIL sends and the close) leave files, directories and free space
\* as they are.
C18_SessionPlaces ==
    {"file_open", "file_recv", "send_success", "fail_inner", "fail_outer", "finally"}

C18_FailurePlaces == {"fail_inner", "fail_outer", "finally"}

C18_EarlierKept ==
    (spc \in C18_SessionPlaces /\ fidx > 0) =>
        /\ manifest = project
        /\ \A k \in 1..(fidx - 1) : fs[manifest[k].path] = ContentOf(project, k)

C18_FailureStep == spc \in C18_FailurePlaces => devVars' = devVars

C18_NoRollback == [](C18_EarlierKept) /\ [][C18_FailureStep]_vars

\* the second entry's write failed and FAIL was sent; the first file is there
C18_Witness ==
    /\ spc = "finally"
    /\ Sent("FAIL")
    /\ Has(slog, Ev("fs", "write_failed"))
    /\ fidx = 2
    /\ manifest[1].size > 0
    /\ fs[manifest[1].path] = ContentOf(project, 1)

\* --------------------------------------------------------------------- C19
\* C19: storage is touched only behind authentication and the manifest.
\* Every directory or file event of a session comes after the sent auth OK,
\* the received manifest and its sent OK, in that order; the server reads
\* the size header or the manifest only with the auth OK sent, and is at a
\* file only with all of that done, the manifest read to its last byte and
\* parsed; and only a step at a file changes files, directories or free
\* space.
C19_Gate(k) ==
    \E o \in 1..(k - 1) :
        /\ slog[o] = Ev("send", "META_OK")
        /\ \E m \in 1..(o - 1) :
              /\ slog[m] = Ev("recv", "META")
              /\ \E a \in 1..(m - 1) : slog[a] = Ev("send", "AUTH_OK")

C19_EffectsGated == \A k \in 1..Len(slog) : slog[k].op = "fs" => C19_Gate(k)

C19_PlacesGated ==
    /\ spc \in {"recv_size", "recv_meta"} => Sent("AUTH_OK")
    /\ spc \in {"file_open", "file_recv"} =>
          /\ C19_Gate(Len(slog) + 1)
          /\ remaining = 0
          /\ manifest # <<>>
          /\ metadata = JsonDumps(manifest)

C19_StorageStep == devVars' # devVars => spc \in {"file_open", "file_recv"}

C19_AuthGatesStorage ==
    [](C19_EffectsGated /\ C19_PlacesGated) /\ [][C19_StorageStep]_vars

\* a file is written in a session whose first response was refused
C19_Witness ==
    /\ Has(slog, Ev("send", "AUTH_FAIL"))
    /\ Has(slog, Ev("fs", "write"))
    /\ spc = "file_recv"
    /\ fs[manifest[fidx].path] # <<>>

\* --------------------------------------------------------------------- C20
\* C20: UPDATE_SUCCESS is sent only with every entry of the manifest done,
\* in the manifest's order: the entry index moves one entry at a time, and
\* only past an entry whose file holds its declared number of bytes and
\* whose OK was sent; when UPDATE_SUCCESS is sent, the index is at the last
\* entry, there is one file OK per entry, every file has its declared
\* length, no read, write, open or directory of the session failed and no
\* FAIL was tried; and no FAIL follows.
C20_IsFailure(e) ==
    \/ e.op \in {"raised", "eof"}
    \/ e.op = "fs" /\ e.tok \in {"mkdir_failed", "open_failed", "write_failed"}
    \/ e.tok \in {"BAD_SIZE", "BAD_META", "FAIL"}

C20_EntryDone(store, k) ==
    /\ store[manifest[k].path] # NoFile
    /\ Len(store[manifest[k].path]) = manifest[k].size

C20_AllDone ==
    Sent("UPDATE_SUCCESS") =>
        /\ fidx = Len(manifest)
        /\ Count(slog, Ev("send", "FILE_OK")) = Len(manifest)
        /\ \A k \in 1..Len(manifest) : C20_EntryDone(fs, k)
        /\ \A k \in 1..Len(slog) : ~C20_IsFailure(slog[k])

C20_OrderStep ==
    /\ (spc \in {"file_open", "file_recv"} /\ fidx' # fidx) =>
          /\ fidx' = fidx + 1
          /\ C20_EntryDone(fs', fidx)
          /\ slog'[Len(slog')] = Ev("send", "FILE_OK")
    /\ (spc \in {"file_open", "file_recv"} /\ spc' = "send_success") =>
          /\ fidx = Len(manifest)
          /\ C20_EntryDone(fs', fidx)
          /\ slog'[Len(slog')] = Ev("send", "FILE_OK")
    /\ (spc \in {"send_success", "close_success", "reset_pending", "restarting"}) =>
          fidx' = fidx

C20_SuccessOnlyWhenComplete == [](C20_AllDone) /\ [][C20_OrderStep]_vars

\* UPDATE_SUCCESS was just sent for two files of 1 and 2 bytes
C20_Witness ==
    /\ spc = "close_success"
    /\ LastEvent = Ev("send", "UPDATE_SUCCESS")
    /\ Len(manifest) = 2
    /\ manifest[1].size = 1
    /\ manifest[2].size = 2
    /\ Count(slog, Ev("send", "FILE_OK")) = 2

=============================================================================
